---- MODULE Spec2Model ----
(***************************************************************************)
(* State-machine model of the SnakeGame React component                    *)
(* (src/unnamed/part_000, the responsive variant with touch and on-screen  *)
(* controls; src/src/components/SnakeGame.tsx is the keyboard-only         *)
(* variant with the same simulation code).                                 *)
(*                                                                         *)
(* Every handler runs to completion on the single event queue and React    *)
(* re-renders (re-creating the callbacks and re-arming the interval)       *)
(* before the next event is dispatched, so the values the callbacks close  *)
(* over are the current state values. State updater functions run once     *)
(* per update, as in a production build. The interval of the game loop is  *)
(* modelled through gameLoopRef: a tick is a firing of an armed interval,  *)
(* and the effect that arms and clears it runs as part of the step that    *)
(* changed one of its dependencies.                                        *)
(***************************************************************************)
EXTENDS Integers, Sequences, FiniteSets

\* ---------------------------------------------------------------- constants
GRID_SIZE == 20
INITIAL_SPEED == 150
MinSpeed == 50
SpeedStep == 5
ScoreStep == 10
minSwipeDistance == 30
MobileWidth == 640
MobileCell == 15
DesktopCell == 20
Margin == 80

Pos(px, py) == [x |-> px, y |-> py]

INITIAL_SNAKE == <<Pos(10, 10)>>
INITIAL_DIRECTION == Pos(1, 0)
INITIAL_FOOD == Pos(15, 15)

\* ------------------------------------------------------------------- bounds
\* Spec explores the game in depth at one viewport width:
\* direction changes explored per game (between two resets)
MaxTurns == 4
\* ticks that neither eat nor collide explored per game
MaxIdle == 11
\* SpecUI explores every viewport width over a shallow game
UiTurns == 1
UiIdle == 2
\* SpecLive follows undisturbed runs: plain moves explored per run
LiveIdle == 20

\* ------------------------------------------------------------------- inputs
Up == Pos(0, -1)
Down == Pos(0, 1)
Left == Pos(-1, 0)
Right == Pos(1, 0)
Directions == {Up, Down, Left, Right}

\* "none": the value of a ref or history variable that holds nothing
None == Pos(0, 0)

\* values of the history variable lastEvent
OtherEvent == [op |-> "other", d |-> None, from |-> ""]
RequestEvent(dir) == [op |-> "request", d |-> dir, from |-> ""]
ResetEvent(phase) == [op |-> "reset", d |-> None, from |-> phase]
\* Play/Pause clicked in GameOver
RestartEvent == [op |-> "restart", d |-> None, from |-> "GameOver"]
\* with detail: the handler (src) that took a request or ignored an input
RequestFrom(detail, dir, src) ==
  [op |-> "request", d |-> dir, from |-> IF detail THEN src ELSE ""]
IgnoredEvent(detail, src) ==
  IF detail THEN [op |-> "ignored", d |-> None, from |-> src] ELSE OtherEvent
ResizeEvent(detail) ==
  IF detail THEN [op |-> "resize", d |-> None, from |-> ""] ELSE OtherEvent

\* values of gameLoopRef.current: null, the id of an armed interval (with its
\* period), the id of an interval that has been cleared
NoTimer == [st |-> "null", period |-> 0]
ArmedTimer(p) == [st |-> "armed", period |-> p]
ClearedTimer == [st |-> "cleared", period |-> 0]

\* keys delivered by keydown events; "x" is not in the key map
Keys == {"ArrowUp", "s", "ArrowLeft", "d", "x"}

\* keyMap[e.key]; None stands for undefined
keyMap(k) ==
  CASE k = "ArrowUp" -> Up
    [] k = "ArrowDown" -> Down
    [] k = "ArrowLeft" -> Left
    [] k = "ArrowRight" -> Right
    [] k = "w" -> Up
    [] k = "s" -> Down
    [] k = "a" -> Left
    [] k = "d" -> Right
    [] OTHER -> None

\* screen coordinates of touches: one start point, end points around it
TouchStarts == {Pos(100, 100)}
TouchEnds == {Pos(131, 100), Pos(69, 100), Pos(100, 131), Pos(100, 69),
              Pos(130, 100), Pos(100, 129), Pos(131, 131)}

\* window.innerWidth values delivered with construction and resize
Widths == {320, 639, 640}
GameWidths == {640}

VARIABLES
  snake,          \* useState snake: sequence of positions, head first
  food,           \* useState food
  direction,      \* useState direction
  directionRef,   \* useRef directionRef.current
  isPlaying,      \* useState isPlaying
  gameOver,       \* useState gameOver
  score,          \* useState score
  speed,          \* useState speed
  cellSize,       \* useState cellSize
  touchStartRef,  \* useRef touchStartRef.current (None = null)
  gameLoopRef,    \* useRef gameLoopRef.current
  leaked,         \* armed intervals whose id gameLoopRef no longer holds
  mounted,        \* the component is mounted
  ticks,          \* history: interval firings counted since the initial state (SpecLive)
  eaten,          \* history: foods eaten since the last reset
  turns,          \* history: direction changes since the last reset
  idle,           \* history: plain moves since the last reset
  lastMove,       \* history: direction of the previous tick's move since the last reset
  lastEvent       \* history: what the last event was (a direction request, a reset, other)

game == <<snake, food, direction, directionRef, isPlaying, gameOver, score, speed>>
vars == <<snake, food, direction, directionRef, isPlaying, gameOver, score, speed,
          cellSize, touchStartRef, gameLoopRef, leaked, mounted, ticks,
          eaten, turns, idle, lastMove, lastEvent>>

\* ------------------------------------------------------------ pure functions
Abs(n) == IF n < 0 THEN -n ELSE n
Min(a, b) == IF a < b THEN a ELSE b
Max(a, b) == IF a > b THEN a ELSE b

Cells(s) == {s[i] : i \in 1..Len(s)}

\* mutant: a width of 640 counts as mobile
getCellSizeMut(innerWidth) ==
  LET isMobile == innerWidth <= MobileWidth
  IN  IF isMobile THEN Min(MobileCell, (innerWidth - Margin) \div GRID_SIZE) ELSE DesktopCell

getCellSize(innerWidth) ==
  LET isMobile == innerWidth < MobileWidth
  IN  IF isMobile THEN Min(MobileCell, (innerWidth - Margin) \div GRID_SIZE) ELSE DesktopCell

\* snake.some(segment => segment.x === p.x && segment.y === p.y)
OnSnake(s, p) == \E i \in 1..Len(s) : s[i].x = p.x /\ s[i].y = p.y

\* mutant: the upper bounds are off by one (> instead of >=)
checkCollisionWallMut(s, head) ==
  IF head.x < 0 \/ head.x > GRID_SIZE \/ head.y < 0 \/ head.y > GRID_SIZE
  THEN TRUE
  ELSE OnSnake(s, head)

\* mutant: the tail segment, which a move would vacate, is not checked
checkCollisionTailMut(s, head) ==
  IF head.x < 0 \/ head.x >= GRID_SIZE \/ head.y < 0 \/ head.y >= GRID_SIZE
  THEN TRUE
  ELSE OnSnake(SubSeq(s, 1, Len(s) - 1), head)

checkCollision(s, head) ==
  IF head.x < 0 \/ head.x >= GRID_SIZE \/ head.y < 0 \/ head.y >= GRID_SIZE
  THEN TRUE
  ELSE OnSnake(s, head)

\* mutant: the y component advances by the x step
NewHeadMut(s, d) == Pos(s[1].x + d.x, s[1].y + d.x)

\* newHead of moveSnake
NewHead(s, d) == Pos(s[1].x + d.x, s[1].y + d.y)

\* [newHead, ...prevSnake]
Grown(s, h) == <<h>> \o s

\* mutant: shift() in place of pop(): the new head is dropped, not the tail
PoppedMut(s, h) == SubSeq(<<h>> \o s, 2, Len(s) + 1)

\* newSnake.pop() applied to [newHead, ...prevSnake]
Popped(s, h) == SubSeq(<<h>> \o s, 1, Len(s))

\* mutant: no floor on the interval
NextSpeedMut(prev) == prev - SpeedStep

\* mutant: the score counts foods
NextScoreMut(prev) == prev + 1

\* Math.max(50, prev - 5)
NextSpeed(prev) == Max(MinSpeed, prev - SpeedStep)

NextScore(prev) == prev + ScoreStep

\* The pairs (Math.floor(Math.random() * GRID_SIZE), Math.floor(Math.random() *
\* GRID_SIZE)) explored for a respawn after a move onto p in direction d: p
\* itself, the cell behind it (the old head), and the cell ahead of it, or the
\* two cells beside it when the cell ahead is off the grid.
InGrid(p) == p.x >= 0 /\ p.x < GRID_SIZE /\ p.y >= 0 /\ p.y < GRID_SIZE
Samples(p, d) ==
  LET ahead == Pos(p.x + d.x, p.y + d.y)
      behind == Pos(p.x - d.x, p.y - d.y)
      sides == {Pos(p.x + d.y, p.y + d.x), Pos(p.x - d.y, p.y - d.x)}
  IN  {q \in {p, behind} \cup (IF InGrid(ahead) THEN {ahead} ELSE sides) : InGrid(q)}

\* generateFood: the values the do-while loop can return when the random
\* pairs are drawn from `samples`; s is the snake the callback closes over
generateFood(s, samples) == {f \in samples : ~OnSnake(s, f)}

\* mutant: no test of isPlaying
changeDirectionIdleMut(playing, cur, newDirection) ==
  IF newDirection.x # -cur.x \/ newDirection.y # -cur.y THEN newDirection
  ELSE cur

\* mutant: no reversal check
changeDirectionMut(playing, cur, newDirection) ==
  IF ~playing THEN cur ELSE newDirection

\* changeDirection: the resulting directionRef.current
changeDirection(playing, cur, newDirection) ==
  IF ~playing THEN cur
  ELSE IF newDirection.x # -cur.x \/ newDirection.y # -cur.y THEN newDirection
  ELSE cur

\* mutant: the axes are swapped
SwipeDirectionMut(start, end) ==
  LET deltaX == end.x - start.x
      deltaY == end.y - start.y
  IN  IF Abs(deltaX) > Abs(deltaY)
      THEN IF Abs(deltaX) > minSwipeDistance
           THEN (IF deltaX > 0 THEN Down ELSE Up)
           ELSE None
      ELSE IF Abs(deltaY) > minSwipeDistance
           THEN (IF deltaY > 0 THEN Right ELSE Left)
           ELSE None

\* handleTouchEnd: the direction it hands to changeDirection, None when the
\* swipe does not register
SwipeDirection(start, end) ==
  LET deltaX == end.x - start.x
      deltaY == end.y - start.y
  IN  IF Abs(deltaX) > Abs(deltaY)
      THEN IF Abs(deltaX) > minSwipeDistance
           THEN (IF deltaX > 0 THEN Right ELSE Left)
           ELSE None
      ELSE IF Abs(deltaY) > minSwipeDistance
           THEN (IF deltaY > 0 THEN Down ELSE Up)
           ELSE None

\* the state of the state machine of spec section 4.1
Phase == IF gameOver THEN "GameOver" ELSE IF isPlaying THEN "Playing" ELSE "Stopped"

\* mutant: the effect has no cleanup
gameLoopCleanupMut(ref) == ref

\* cleanup of the game-loop effect: clearInterval(gameLoopRef.current) when
\* the ref holds an id; the ref keeps the id of the cleared interval
gameLoopCleanup(ref) == IF ref.st = "armed" THEN ClearedTimer ELSE ref

\* mutant: the interval is armed with the initial period
gameLoopEffectMut(ref, playing, over, period) ==
  IF playing /\ ~over THEN ArmedTimer(INITIAL_SPEED) ELSE ref

\* body of the game-loop effect: the resulting gameLoopRef.current
gameLoopEffect(ref, playing, over, period) ==
  IF playing /\ ~over THEN ArmedTimer(period) ELSE ref

\* The game-loop effect re-run by the render that follows a change of
\* isPlaying, gameOver, moveSnake or speed: first the cleanup of the previous
\* run, then the body with the new values. An interval that is still armed
\* when the body overwrites the ref is counted in `leaked`.
RunGameLoopEffect ==
  LET cleaned == gameLoopCleanup(gameLoopRef)
  IN  /\ gameLoopRef' = gameLoopEffect(cleaned, isPlaying', gameOver', speed')
      /\ leaked' = IF cleaned.st = "armed" /\ isPlaying' /\ ~gameOver'
                   THEN leaked + 1 ELSE leaked

\* --------------------------------------------------------------------- Init
InitAt(widths) ==
  /\ snake = INITIAL_SNAKE
  /\ food = INITIAL_FOOD
  /\ direction = INITIAL_DIRECTION
  /\ directionRef = INITIAL_DIRECTION
  /\ isPlaying = FALSE
  /\ gameOver = FALSE
  /\ score = 0
  /\ speed = INITIAL_SPEED
  /\ cellSize \in {getCellSize(w) : w \in widths}
  /\ touchStartRef = None
  /\ gameLoopRef = NoTimer
  /\ leaked = 0
  /\ mounted = TRUE
  /\ ticks = 0
  /\ eaten = 0
  /\ turns = 0
  /\ idle = 0
  /\ lastMove = None
  /\ lastEvent = OtherEvent

\* ------------------------------------------------------------------ actions
\* mutant: the body the respawn loop tests is the grown snake
FoodClosureMut(s, h) == <<h>> \o s

\* the snake generateFood closes over when moveSnake calls it for a move onto
\* h: the snake of the last render, which the updater receives as prevSnake
FoodClosure(s, h) == s

\* One firing of an armed interval: moveSnake. With count, the firing is
\* counted in ticks.
Tick(maxIdle, count) ==
  /\ mounted
  /\ gameLoopRef.st = "armed" \/ leaked > 0
  /\ IF gameOver
     THEN UNCHANGED <<snake, food, score, speed, isPlaying, gameOver, eaten, idle,
                      lastMove, gameLoopRef, leaked>>
     ELSE
     LET newHead == NewHead(snake, directionRef)
     IN  /\ IF checkCollision(snake, newHead)
            THEN /\ gameOver' = TRUE
                 /\ isPlaying' = FALSE
                 /\ UNCHANGED <<snake, food, score, speed, eaten, idle, lastMove>>
            ELSE IF newHead.x = food.x /\ newHead.y = food.y
            THEN /\ snake' = Grown(snake, newHead)
                 /\ score' = NextScore(score)
                 /\ food' \in generateFood(FoodClosure(snake, newHead),
                                           Samples(newHead, directionRef))
                 /\ speed' = NextSpeed(speed)
                 /\ eaten' = eaten + 1
                 /\ lastMove' = directionRef
                 /\ UNCHANGED <<isPlaying, gameOver, idle>>
            ELSE /\ idle < maxIdle
                 /\ snake' = Popped(snake, newHead)
                 /\ idle' = idle + 1
                 /\ lastMove' = directionRef
                 /\ UNCHANGED <<food, score, speed, isPlaying, gameOver, eaten>>
         /\ RunGameLoopEffect
  /\ lastEvent' = OtherEvent
  /\ ticks' = IF count THEN ticks + 1 ELSE ticks
  /\ UNCHANGED <<direction, directionRef, cellSize, touchStartRef, turns, mounted>>

\* changeDirection(d) called by the event handler src
Request(d, maxTurns, detail, src) ==
  LET next == changeDirection(isPlaying, directionRef, d)
  IN  /\ next # directionRef => turns < maxTurns
      /\ directionRef' = next
      /\ direction' = next
      /\ turns' = IF next # directionRef THEN turns + 1 ELSE turns
      /\ lastEvent' = IF isPlaying THEN RequestFrom(detail, d, src)
                      ELSE IgnoredEvent(detail, src)

\* keydown
handleKeyPress(k, maxTurns, detail) ==
  /\ mounted
  /\ IF isPlaying /\ keyMap(k) # None
     THEN Request(keyMap(k), maxTurns, detail, "key")
     ELSE /\ lastEvent' = IgnoredEvent(detail, "key")
          /\ UNCHANGED <<direction, directionRef, turns>>
  /\ UNCHANGED <<snake, food, isPlaying, gameOver, score, speed, cellSize,
                 touchStartRef, gameLoopRef, leaked, mounted, ticks, eaten, idle, lastMove>>

\* touchstart
handleTouchStart(p) ==
  /\ mounted
  /\ touchStartRef' = p
  /\ lastEvent' = OtherEvent
  /\ UNCHANGED <<game, cellSize, gameLoopRef, leaked, mounted, ticks, eaten, turns, idle,
                 lastMove>>

\* touchend
handleTouchEnd(p, maxTurns, detail) ==
  /\ mounted
  /\ IF touchStartRef = None \/ ~isPlaying
     THEN /\ lastEvent' = IF touchStartRef = None THEN OtherEvent
                          ELSE IgnoredEvent(detail, "swipe")
          /\ UNCHANGED <<direction, directionRef, turns, touchStartRef>>
     ELSE /\ IF SwipeDirection(touchStartRef, p) # None
             THEN Request(SwipeDirection(touchStartRef, p), maxTurns, detail, "swipe")
             ELSE /\ lastEvent' = IgnoredEvent(detail, "swipe")
                  /\ UNCHANGED <<direction, directionRef, turns>>
          /\ touchStartRef' = None
  /\ UNCHANGED <<snake, food, isPlaying, gameOver, score, speed, cellSize,
                 gameLoopRef, leaked, mounted, ticks, eaten, idle, lastMove>>

\* click on one of the four on-screen directional buttons
DirectionButton(d, maxTurns, detail) ==
  /\ mounted
  /\ Request(d, maxTurns, detail, "button")
  /\ UNCHANGED <<snake, food, isPlaying, gameOver, score, speed, cellSize,
                 touchStartRef, gameLoopRef, leaked, mounted, ticks, eaten, idle, lastMove>>

\* resize
handleResize(w, detail) ==
  /\ mounted
  /\ cellSize' = getCellSize(w)
  /\ lastEvent' = ResizeEvent(detail)
  /\ UNCHANGED <<game, touchStartRef, gameLoopRef, leaked, mounted, ticks, eaten, turns,
                 idle, lastMove>>

\* mutant: the ref is not reset with the direction state
ResetMut ==
  /\ snake' = INITIAL_SNAKE
  /\ food' = INITIAL_FOOD
  /\ direction' = INITIAL_DIRECTION
  /\ UNCHANGED directionRef
  /\ gameOver' = FALSE
  /\ score' = 0
  /\ speed' = INITIAL_SPEED
  /\ eaten' = 0
  /\ turns' = 0
  /\ idle' = 0
  /\ lastMove' = None

\* mutant: gameOver is not cleared
ResetOverMut ==
  /\ snake' = INITIAL_SNAKE
  /\ food' = INITIAL_FOOD
  /\ direction' = INITIAL_DIRECTION
  /\ directionRef' = INITIAL_DIRECTION
  /\ UNCHANGED gameOver
  /\ score' = 0
  /\ speed' = INITIAL_SPEED
  /\ eaten' = 0
  /\ turns' = 0
  /\ idle' = 0
  /\ lastMove' = None

\* the assignments of resetGame
Reset ==
  /\ snake' = INITIAL_SNAKE
  /\ food' = INITIAL_FOOD
  /\ direction' = INITIAL_DIRECTION
  /\ directionRef' = INITIAL_DIRECTION
  /\ gameOver' = FALSE
  /\ score' = 0
  /\ speed' = INITIAL_SPEED
  /\ eaten' = 0
  /\ turns' = 0
  /\ idle' = 0
  /\ lastMove' = None

\* click on Reset, or on the restart button of the game-over overlay
resetGame ==
  /\ mounted
  /\ Reset
  /\ isPlaying' = FALSE
  /\ RunGameLoopEffect
  /\ lastEvent' = ResetEvent(Phase)
  /\ UNCHANGED <<cellSize, touchStartRef, mounted, ticks>>

\* mutant: the test of gameOver is inverted
togglePlayMut ==
  /\ mounted
  /\ IF ~gameOver
     THEN Reset
     ELSE UNCHANGED <<snake, food, direction, directionRef, gameOver, score, speed,
                     eaten, turns, idle, lastMove>>
  /\ isPlaying' = ~isPlaying
  /\ RunGameLoopEffect
  /\ lastEvent' = IF gameOver THEN RestartEvent ELSE OtherEvent
  /\ UNCHANGED <<cellSize, touchStartRef, mounted, ticks>>

\* click on Play/Pause
togglePlay ==
  /\ mounted
  /\ IF gameOver
     THEN Reset
     ELSE UNCHANGED <<snake, food, direction, directionRef, gameOver, score, speed,
                     eaten, turns, idle, lastMove>>
  /\ isPlaying' = ~isPlaying
  /\ RunGameLoopEffect
  /\ lastEvent' = IF gameOver THEN RestartEvent ELSE OtherEvent
  /\ UNCHANGED <<cellSize, touchStartRef, mounted, ticks>>

\* The component is unmounted: the cleanup of the game-loop effect runs and
\* the listeners are removed. React drops the component's state; the state
\* variables are parked at their initial values.
Unmount ==
  /\ mounted
  /\ mounted' = FALSE
  /\ gameLoopRef' = gameLoopCleanup(gameLoopRef)
  /\ Reset
  /\ isPlaying' = FALSE
  /\ touchStartRef' = None
  /\ lastEvent' = OtherEvent
  /\ UNCHANGED <<cellSize, leaked, ticks>>

\* the events of the component, with the inputs and budgets explored
Step(widths, maxTurns, maxIdle, detail) ==
  \/ Tick(maxIdle, FALSE)
  \/ \E k \in Keys : handleKeyPress(k, maxTurns, detail)
  \/ \E p \in TouchStarts : handleTouchStart(p)
  \/ \E p \in TouchEnds : handleTouchEnd(p, maxTurns, detail)
  \/ \E d \in Directions : DirectionButton(d, maxTurns, detail)
  \/ \E w \in widths : handleResize(w, detail)
  \/ resetGame
  \/ togglePlay
  \/ Unmount

Init == InitAt(GameWidths)
Next == Step(GameWidths, MaxTurns, MaxIdle, FALSE)
Spec == Init /\ [][Next]_vars

\* SpecUI records in lastEvent which handler took a request, and the inputs
\* that were ignored
InitUI == InitAt(Widths)
NextUI == Step(Widths, UiTurns, UiIdle, TRUE)
SpecUI == InitUI /\ [][NextUI]_vars

\* A game played until one cell of the board is free. The snake of length 1
\* walks from (10,10) to (15,14) and eats the first food at (15,15) moving
\* down; every food after it respawns on the cell the head moves to next.
\* FullPath lists the cells in the order the head visits them:
\* down column 15 to the bottom row, the columns 16..19 row by row up to the
\* top, the columns 0..15 row by row down to row 12, the columns 0..12 column
\* by column over the rows 13..19, and the columns 13..14 row by row up to
\* (14,13). The free cell is (15,13), where the food is.
GridCells == {Pos(cx, cy) : cx \in 0..(GRID_SIZE - 1), cy \in 0..(GRID_SIZE - 1)}
FullLen == GRID_SIZE * GRID_SIZE - 1
FullPath ==
  [i \in 1..FullLen |->
     IF i <= 6 THEN Pos(15, 13 + i)
     ELSE IF i <= 86
     THEN LET q == (i - 7) \div 4
              j == (i - 7) % 4
          IN  Pos(IF q % 2 = 0 THEN 16 + j ELSE 19 - j, 19 - q)
     ELSE IF i <= 294
     THEN LET r == (i - 87) \div 16
              j == (i - 87) % 16
          IN  Pos(IF r % 2 = 0 THEN 15 - j ELSE j, r)
     ELSE IF i <= 385
     THEN LET c == (i - 295) \div 7
              j == (i - 295) % 7
          IN  Pos(c, IF c % 2 = 0 THEN 13 + j ELSE 19 - j)
     ELSE LET q == (i - 386) \div 2
              j == (i - 386) % 2
          IN  Pos(IF q % 2 = 0 THEN 13 + j ELSE 14 - j, 19 - q)]
\* the snake after that game, head first
FullSnake == [i \in 1..FullLen |-> FullPath[FullLen + 1 - i]]

InitFull ==
  /\ snake = FullSnake
  /\ food = Pos(15, 13)
  /\ direction = Right
  /\ directionRef = Right
  /\ isPlaying = TRUE
  /\ gameOver = FALSE
  /\ score = ScoreStep * (FullLen - 1)
  /\ speed = MinSpeed
  /\ cellSize \in {getCellSize(w) : w \in GameWidths}
  /\ touchStartRef = None
  /\ gameLoopRef = ArmedTimer(MinSpeed)
  /\ leaked = 0
  /\ mounted = TRUE
  /\ ticks = 0
  /\ eaten = FullLen - 1
  /\ turns = 0
  /\ idle = 0
  /\ lastMove = Right
  /\ lastEvent = OtherEvent

\* SpecFull starts with the board almost full; a reset leads on to the states
\* of Spec
SpecFull == InitFull /\ [][Next]_vars

\* Playing states a run of SpecLive starts in: the snake of length 1 of a game
\* that has not eaten yet, on any cell but the food's and heading any way; and
\* a snake of seven that is about to run into its own body.
LiveStarts == {c \in GridCells : c # INITIAL_FOOD}
HookSnake ==
  <<Pos(5, 5), Pos(5, 6), Pos(6, 6), Pos(6, 5), Pos(6, 4), Pos(5, 4), Pos(4, 4)>>
InitLive ==
  /\ \/ /\ snake \in {<<c>> : c \in LiveStarts}
        /\ directionRef \in Directions
        /\ food = INITIAL_FOOD
     \/ /\ snake = HookSnake
        /\ directionRef = Up
        /\ food = Pos(5, 0)
  /\ direction = directionRef
  /\ isPlaying = TRUE
  /\ gameOver = FALSE
  /\ eaten = Len(snake) - 1
  /\ score = ScoreStep * eaten
  /\ speed = INITIAL_SPEED - SpeedStep * eaten
  /\ cellSize \in {getCellSize(w) : w \in GameWidths}
  /\ touchStartRef = None
  /\ gameLoopRef = ArmedTimer(speed)
  /\ leaked = 0
  /\ mounted = TRUE
  /\ ticks = 0
  /\ turns = 0
  /\ idle = 0
  /\ lastMove = None
  /\ lastEvent = OtherEvent

\* touchend of a gesture that hands no direction to changeDirection
ShortTouchEnd(p) ==
  /\ touchStartRef = None \/ SwipeDirection(touchStartRef, p) = None
  /\ handleTouchEnd(p, 0, FALSE)

\* the events of an undisturbed run: interval firings, and the inputs that
\* are no direction request, no Play/Pause click and no reset
NextLive ==
  \/ Tick(LiveIdle, TRUE)
  \/ \E k \in {u \in Keys : keyMap(u) = None} : handleKeyPress(k, 0, FALSE)
  \/ \E p \in TouchStarts : handleTouchStart(p)
  \/ \E p \in TouchEnds : ShortTouchEnd(p)
  \/ \E w \in GameWidths : handleResize(w, FALSE)

\* the interval keeps firing while it is armed
SpecLive == InitLive /\ [][NextLive]_vars /\ WF_vars(Tick(LiveIdle, TRUE))

\* ------------------------------------------------------------------- claims
Opp(d) == Pos(-d.x, -d.y)
HeadCell == snake[1]
\* the cell one step from the head in the live direction
Ahead == Pos(snake[1].x + direction.x, snake[1].y + direction.y)
OffGrid(p) == p.x < 0 \/ p.x > 19 \/ p.y < 0 \/ p.y > 19
\* the steps that are ticks: the history counters advance on a tick that moves
\* the snake, and only a colliding tick sets gameOver
Moved == idle' = idle + 1 \/ eaten' = eaten + 1
Ate == eaten' = eaten + 1
Collided == gameOver' /\ ~gameOver
Ticked == Moved \/ Collided
\* the steps that restore the initial game: the Reset button, or Play in GameOver
\* (the state of a component that is unmounted is not a game state)
Restarted == lastEvent'.op = "reset" \/ (gameOver /\ ~gameOver')

\* C1: whenever a tick eats food, the newly spawned food is on no cell of the
\* snake as it is right after that tick (neither a pre-step body cell nor the
\* new head).
C1_RespawnOffSnake ==
  [][Ate => \A i \in 1..Len(snake') : snake'[i] # food']_vars

\* C2: no tick moves the head in the direction opposite to the previous tick's
\* move, so with two or more segments the next head a tick computes is never
\* the second segment.
C2_NoReversal ==
  [][Ticked =>
       /\ (lastMove # None => directionRef # Opp(lastMove))
       /\ (Len(snake) >= 2 => Ahead # snake[2])]_vars

\* C3: a direction request (key, swipe or button) that is the exact opposite of
\* the live direction changes neither the live direction nor any other field
\* of the game state, however often it is repeated.
\* While playing the history variable names the request; while not playing
\* the step is matched against the three handlers.
OppositeRequested ==
  \/ lastEvent'.op = "request" /\ lastEvent'.d = Opp(directionRef)
  \/ /\ ~isPlaying
     /\ \/ \E k \in Keys : keyMap(k) = Opp(directionRef) /\ handleKeyPress(k, MaxTurns, FALSE)
        \/ \E p \in TouchEnds :
             /\ touchStartRef # None
             /\ SwipeDirection(touchStartRef, p) = Opp(directionRef)
             /\ handleTouchEnd(p, MaxTurns, FALSE)
        \/ DirectionButton(Opp(directionRef), MaxTurns, FALSE)
C3_OppositeRejected ==
  [][OppositeRequested
     => UNCHANGED <<snake, food, direction, directionRef, isPlaying, gameOver,
                    score, speed, cellSize>>]_vars
\* a request for the opposite of the live direction has just been handled while playing
C3_Witness ==
  /\ isPlaying
  /\ lastEvent.op = "request"
  /\ lastEvent.d = Opp(directionRef)
  /\ directionRef = direction

\* C4: after every tick that does not collide, the head is the old head plus
\* the live direction, component-wise.
C4_HeadAdvances ==
  [][Moved => /\ snake'[1].x = snake[1].x + direction.x
              /\ snake'[1].y = snake[1].y + direction.y]_vars
\* a tick has moved the head after an accepted request for Down
C4_Witness ==
  /\ lastMove = Down
  /\ turns = 1
  /\ idle = 1
  /\ HeadCell = Pos(10, 11)

\* C5: a non-colliding tick onto the food keeps the whole old body behind the
\* new head (length + 1); any other non-colliding tick keeps the length and
\* yields the new head followed by the old body without its last segment.
C5_GrowOrShift ==
  [][Moved =>
       IF Ahead = food
       THEN /\ Len(snake') = Len(snake) + 1
            /\ snake' = <<Ahead>> \o snake
       ELSE /\ Len(snake') = Len(snake)
            /\ snake' = <<Ahead>> \o SubSeq(snake, 1, Len(snake) - 1)]_vars
\* the snake has eaten twice and has since made plain moves with three segments
C5_Witness ==
  /\ eaten = 2
  /\ Len(snake) = 3
  /\ idle > 9
  /\ food \notin Cells(snake)

\* C6: a tick whose next head is outside [0,20) on either axis sets gameOver,
\* clears isPlaying and leaves snake, score, food and speed as they were.
C6_WallCollision ==
  [][Ticked /\ OffGrid(Ahead)
     => /\ gameOver' = TRUE
        /\ isPlaying' = FALSE
        /\ UNCHANGED <<snake, score, food, speed>>]_vars
\* the game ended on a tick into the right wall
C6_Witness ==
  /\ gameOver
  /\ ~isPlaying
  /\ HeadCell.x = 19
  /\ directionRef = Right

\* C7: a tick whose next head is on any cell of the pre-step body, the tail
\* cell included, ends the game as a wall collision does.
C7_SelfCollision ==
  [][Ticked /\ (\E i \in 1..Len(snake) : snake[i] = Ahead)
     => /\ gameOver' = TRUE
        /\ isPlaying' = FALSE
        /\ UNCHANGED <<snake, score, food, speed>>]_vars
\* the game ended on a tick onto the tail cell of a snake of four or more
C7_Witness ==
  /\ gameOver
  /\ ~isPlaying
  /\ Len(snake) >= 4
  /\ Ahead = snake[Len(snake)]

\* C8: the score is 10 times the number of foods eaten since the last reset;
\* an eating tick adds exactly 10 and only an eating tick or a reset changes it.
C8_Score ==
  /\ [](score = 10 * eaten)
  /\ [][mounted' /\ score' # score =>
          \/ Ate /\ score' = score + 10
          \/ Restarted /\ score' = 0]_vars
C8_Witness ==
  /\ eaten = 21
  /\ score = 210

\* C9: the tick interval is max(50, 150 - 5k) after k foods since the last
\* reset, always within 50..150, and only an eating tick or a reset changes it.
C9_Speed ==
  /\ [](/\ speed = (IF 150 - 5 * eaten > 50 THEN 150 - 5 * eaten ELSE 50)
        /\ speed >= 50
        /\ speed <= 150)
  /\ [][mounted' /\ speed' # speed => Ate \/ (Restarted /\ speed' = 150)]_vars
\* the floor is in force: a food eaten at speed 50 left it at 50
C9_Witness ==
  /\ eaten = 21
  /\ speed = 50

\* C10: reset in any state yields exactly the initial state.
C10_ResetRestoresInitial ==
  [][lastEvent'.op = "reset" =>
       /\ snake' = <<Pos(10, 10)>>
       /\ food' = Pos(15, 15)
       /\ direction' = Pos(1, 0)
       /\ directionRef' = Pos(1, 0)
       /\ score' = 0
       /\ speed' = 150
       /\ isPlaying' = FALSE
       /\ gameOver' = FALSE]_vars
\* the last event was a reset pressed in GameOver
C10_Witness ==
  /\ lastEvent.op = "reset"
  /\ lastEvent.from = "GameOver"

\* the initial game state of spec section 3
InitialGame ==
  /\ snake = <<Pos(10, 10)>>
  /\ food = Pos(15, 15)
  /\ direction = Pos(1, 0)
  /\ directionRef = Pos(1, 0)
  /\ score = 0
  /\ speed = 150

\* C11: Play/Pause clicked in GameOver restarts: it yields the initial snake,
\* food, direction, score and speed with gameOver false and isPlaying true;
\* and no step of the mounted component other than this click or a reset
\* leaves GameOver.
C11_ToggleRestarts ==
  [][gameOver =>
       /\ togglePlay => InitialGame' /\ ~gameOver' /\ isPlaying'
       /\ mounted' /\ ~gameOver' => togglePlay \/ resetGame]_vars
\* Play/Pause has just been clicked in GameOver, and the game is running
C11_Witness ==
  /\ lastEvent.op = "restart"
  /\ isPlaying
  /\ ~gameOver
  /\ InitialGame

\* C12: while isPlaying is false or gameOver is true, snake, food, score and
\* speed stay unchanged by every step of the mounted component that is
\* neither a Play/Pause click nor a reset.
C12_NoStepOutsidePlaying ==
  [][(~isPlaying \/ gameOver) /\ mounted' /\ ~(togglePlay \/ resetGame)
     => UNCHANGED <<snake, food, score, speed>>]_vars
\* the game is paused after its second food, and a touch began during the pause
C12_Witness ==
  /\ ~isPlaying
  /\ ~gameOver
  /\ eaten = 2
  /\ gameLoopRef.st = "cleared"
  /\ touchStartRef # None
  /\ lastEvent = OtherEvent

\* C13: at most one interval is armed; one is armed exactly when isPlaying
\* and not gameOver; its period is the current speed; none is armed once the
\* component is unmounted.
C13_OneTimer ==
  /\ leaked + (IF gameLoopRef.st = "armed" THEN 1 ELSE 0) <= 1
  /\ (leaked > 0 \/ gameLoopRef.st = "armed") <=> (isPlaying /\ ~gameOver)
  /\ gameLoopRef.st = "armed" => gameLoopRef.period = speed
  /\ ~mounted => leaked = 0 /\ gameLoopRef.st # "armed"
\* the interval was re-armed with the period that followed the second food
C13_Witness ==
  /\ gameLoopRef = ArmedTimer(140)
  /\ eaten = 2
  /\ leaked = 0

\* the larger of the absolute displacements of a swipe
SwipeReach(start, end) == Max(Abs(end.x - start.x), Abs(end.y - start.y))
\* the steps that handle an invalid input: a key outside the key map, a swipe
\* that does not exceed the threshold, or any direction request while isPlaying is false
InvalidInput ==
  \/ \E k \in Keys : keyMap(k) = None /\ handleKeyPress(k, UiTurns, TRUE)
  \/ \E p \in TouchEnds :
       /\ touchStartRef # None
       /\ SwipeReach(touchStartRef, p) <= 30
       /\ handleTouchEnd(p, UiTurns, TRUE)
  \/ /\ ~isPlaying
     /\ \/ \E k \in Keys : handleKeyPress(k, UiTurns, TRUE)
        \/ \E p \in TouchEnds : handleTouchEnd(p, UiTurns, TRUE)
        \/ \E d \in Directions : DirectionButton(d, UiTurns, TRUE)

\* C14: an unmapped key, a swipe of at most 30 units and any direction request while
\* isPlaying is false leave snake, food, the live direction, score, speed,
\* isPlaying and gameOver unchanged (so a direction requested during a pause
\* is not there after resuming).
C14_InvalidInputIgnored ==
  [][InvalidInput
     => UNCHANGED <<snake, food, direction, directionRef, score, speed, isPlaying,
                    gameOver>>]_vars
\* a directional button was pressed during a pause that followed a move
C14_Witness ==
  /\ lastEvent.op = "ignored"
  /\ lastEvent.from = "button"
  /\ ~isPlaying
  /\ ~gameOver
  /\ idle >= 1

\* C15: the body has at least one element, every element is a cell of the
\* 20 x 20 grid, and no two elements are on the same cell.
C15_BodyWellFormed ==
  /\ Len(snake) >= 1
  /\ \A i \in 1..Len(snake) :
       snake[i].x >= 0 /\ snake[i].x < 20 /\ snake[i].y >= 0 /\ snake[i].y < 20
  /\ \A i, j \in 1..Len(snake) : i # j => snake[i] # snake[j]
\* a grown snake whose head is in a corner of the grid
C15_Witness ==
  /\ Len(snake) >= 5
  /\ HeadCell = Pos(19, 0)

\* C16: Play/Pause clicked in a state that is not GameOver flips isPlaying and
\* changes none of snake, food, direction, score, speed, gameOver.
C16_ToggleFlipsOnlyIsPlaying ==
  [][~gameOver /\ togglePlay
     => /\ isPlaying' = ~isPlaying
        /\ UNCHANGED <<snake, food, direction, directionRef, score, speed,
                       gameOver>>]_vars
\* the game was paused with a snake of three that has just turned up
C16_Witness ==
  /\ ~isPlaying
  /\ ~gameOver
  /\ Len(snake) = 3
  /\ idle = 10
  /\ directionRef = Up

\* the directions along an axis of largest absolute displacement, with the
\* sign of the displacement on that axis
AxisDirections(dx, dy) ==
  (IF Abs(dx) >= Abs(dy) /\ dx # 0 THEN {IF dx > 0 THEN Pos(1, 0) ELSE Pos(-1, 0)} ELSE {})
  \cup
  (IF Abs(dy) >= Abs(dx) /\ dy # 0 THEN {IF dy > 0 THEN Pos(0, 1) ELSE Pos(0, -1)} ELSE {})

\* C17: a swipe ended while playing is handed on as a direction request only
\* if the larger of |dx| and |dy| is at least 30; the direction requested is
\* then along the axis of larger absolute displacement, with its sign; and the
\* request takes effect unless it is the opposite of the live direction.
C17_SwipeClassified ==
  [][\A p \in TouchEnds :
       isPlaying /\ touchStartRef # None /\ handleTouchEnd(p, UiTurns, TRUE)
       => LET dx == p.x - touchStartRef.x
              dy == p.y - touchStartRef.y
              req == lastEvent'.d
          IN  IF lastEvent'.op = "request"
              THEN /\ Max(Abs(dx), Abs(dy)) >= 30
                   /\ req \in AxisDirections(dx, dy)
                   /\ directionRef' = (IF req = Opp(directionRef) THEN directionRef ELSE req)
                   /\ direction' = directionRef'
              ELSE UNCHANGED <<direction, directionRef>>]_vars
\* a swipe up has just turned the snake
C17_Witness ==
  /\ lastEvent = [op |-> "request", d |-> Up, from |-> "swipe"]
  /\ directionRef = Up
  /\ direction = Up
  /\ isPlaying
  /\ touchStartRef = None

\* C18: a resize sets cellSize to min(15, floor((w - 80) / 20)) for a viewport
\* width w < 640 and to 20 otherwise, and changes none of snake, food,
\* direction, score, speed, isPlaying, gameOver.
C18_ResizeOnlyCellSize ==
  [][\A w \in Widths :
       handleResize(w, TRUE)
       => /\ cellSize' = (IF w < 640
                          THEN (IF (w - 80) \div 20 < 15 THEN (w - 80) \div 20 ELSE 15)
                          ELSE 20)
          /\ UNCHANGED <<snake, food, direction, directionRef, score, speed,
                         isPlaying, gameOver>>]_vars
\* the window was narrowed to 320 while the game was running
C18_Witness ==
  /\ lastEvent.op = "resize"
  /\ cellSize = 12
  /\ isPlaying
  /\ idle >= 1

\* C19: isPlaying and gameOver are never both true.
C19_NotPlayingWhenOver == ~(isPlaying /\ gameOver)
\* Play/Pause clicked in GameOver, during a touch: the game runs, not over
C19_Witness ==
  /\ lastEvent.op = "restart"
  /\ touchStartRef # None
  /\ isPlaying
  /\ ~gameOver

\* the next tick eats: the cell ahead is the food cell, on the grid and off the body
EatsNext ==
  /\ mounted
  /\ isPlaying
  /\ ~gameOver
  /\ Ahead = food
  /\ ~OffGrid(Ahead)
  /\ \A i \in 1..Len(snake) : snake[i] # Ahead

\* C20: in every state in which the next tick eats, the respawn loop accepts
\* at least one cell of the grid, also when the body covers all cells but one.
C20_RespawnTerminates ==
  EatsNext => generateFood(FoodClosure(snake, Ahead), GridCells) # {}
\* the tick ate with one cell free: the board is full, the food is under the head
C20_Witness ==
  /\ Len(snake) = GRID_SIZE * GRID_SIZE
  /\ eaten = FullLen
  /\ food = HeadCell
  /\ ~gameOver

\* C21: a game that is playing and is left undisturbed (no direction request,
\* no Play/Pause click, no reset) while the interval keeps firing reaches
\* GameOver, after at most 20 firings.
C21_GameOverWithin20 ==
  /\ (isPlaying /\ ~gameOver) ~> gameOver
  /\ [](ticks <= 20)
  /\ [](ticks = 20 => gameOver)
\* a snake that started at the left wall heading right ended at the right
\* wall on the 20th firing
C21_Witness ==
  /\ gameOver
  /\ ticks = 20
  /\ HeadCell.x = 19
  /\ directionRef = Right

\* C22: the live direction is one of the four unit vectors, and consecutive
\* body segments differ by exactly 1 in exactly one coordinate.
C22_UnitDirectionContiguousBody ==
  /\ direction \in {Pos(0, -1), Pos(0, 1), Pos(-1, 0), Pos(1, 0)}
  /\ directionRef \in {Pos(0, -1), Pos(0, 1), Pos(-1, 0), Pos(1, 0)}
  /\ \A i \in 1..(Len(snake) - 1) :
       \/ snake[i].x = snake[i + 1].x /\ Abs(snake[i].y - snake[i + 1].y) = 1
       \/ snake[i].y = snake[i + 1].y /\ Abs(snake[i].x - snake[i + 1].x) = 1
\* a snake of four or more with a bend, heading left
C22_Witness ==
  /\ Len(snake) >= 4
  /\ HeadCell.x # snake[Len(snake)].x
  /\ HeadCell.y # snake[Len(snake)].y
  /\ direction = Left
====
